---- MODULE Spec2Model ----
(***************************************************************************)
(* RGB2GIF2VOXEL frame pipeline: the streaming frame store                 *)
(* (zig-core/yxcbor_stub.c behind ThirdParty/Headers/yxcbor.h), the        *)
(* single-frame store (yxcbor_simple.h), the GIF size estimator and        *)
(* encoder (CStubs/stub_all_symbols.c) and the batch quantizer             *)
(* (yingif_ffi.h).                                                         *)
(***************************************************************************)
EXTENDS Integers, Sequences, FiniteSets, TLC

\* ---------------------------------------------------------------- bounds
MaxSide == 2          \* frame sides are drawn from 0..MaxSide
MaxPattern == 2       \* generate_test_frame patterns 0..MaxPattern
MaxFrameCount == 2    \* manifest.frame_count is drawn from 1..MaxFrameCount
MaxWrites == 3        \* write_frame calls recorded per writer session
MaxPayload == 1       \* streamed payloads are test patterns 0..MaxPayload
MaxFrames == 2        \* frames per quantizer / encoder batch

\* ------------------------------------------------------- program constants
Channels == 4         \* RGBA, tests/test_pipeline.c:21
StubFrameCount == 32  \* zig-core/yxcbor_stub.c:30
StubWidth == 64       \* zig-core/yxcbor_stub.c:31
StubHeight == 64      \* zig-core/yxcbor_stub.c:32
StubFormat == 0       \* zig-core/yxcbor_stub.c:33

VARIABLES
    \* --- streaming store (yxcbor_stub.c); the stub keeps no state of its
    \* own, so the session is recorded as the history of the calls made
    writerActive,   \* an open_writer returned 0 and no close_writer followed
    finalized,      \* a close_writer ended a writer session
    batchManifest,  \* the manifest given to the last open_writer (public layout)
    written,        \* payloads of the write_frame calls that returned 0, in order
    stored,         \* what the store holds: index -> payload
    readerActive,   \* an open_reader returned 0 and no close_reader followed
    outManifest,    \* the caller's manifest struct, as four uint32 words
    outBuf,         \* the caller's read_frame buffer
    readIndex,      \* the index asked of the last read_frame
    callInSession,  \* was a writer session active when the last writer call was made
    storeOp,        \* the last streaming call
    storeStatus,    \* the status the caller saw for it
    \* --- single-frame store (yxcbor_save_frame / yxcbor_load_frame)
    file,           \* the frame file: [exists, bytes]
    saved,          \* the arguments of the last save_frame that returned 0
    loaded,         \* the outputs of the last call, when it was a load_frame
    frameOp,        \* the last single-frame call
    frameStatus,    \* its status
    \* --- GIF size estimator and encoder (CStubs/stub_all_symbols.c)
    gifOp,          \* the last estimator / encoder call
    gifArgs,        \* its frame count and side
    estimate,       \* the last value the estimator returned
    capacityIn,     \* the capacity the caller gave the encoder
    gifBuf,         \* the caller's output buffer after the call
    gifLen,         \* the caller's bytes-written variable after the call
    gifStatus,      \* the status the encoder returned
    \* --- batch quantizer (yx_proc_batch_rgba8)
    quantOp,        \* the last quantizer call
    quantArgs,      \* the caller's n, width, height, target_side,
                    \* palette_size and first test pattern
    outIndices,     \* out_indices as written by the call
    outPalettes,    \* out_palettes as written: one palette per frame
    quantStatus     \* its status

storeVars == <<writerActive, finalized, batchManifest, written, stored,
               readerActive, outManifest, outBuf, readIndex, callInSession,
               storeOp, storeStatus>>

frameVars == <<file, saved, loaded, frameOp, frameStatus>>

gifVars == <<gifOp, gifArgs, estimate, capacityIn, gifBuf, gifLen, gifStatus>>

quantVars == <<quantOp, quantArgs, outIndices, outPalettes, quantStatus>>

vars == <<storeVars, frameVars, gifVars, quantVars>>

\* each component's calls leave the other components alone
notStoreVars == <<frameVars, gifVars, quantVars>>
notFrameVars == <<storeVars, gifVars, quantVars>>
notGifVars == <<storeVars, frameVars, quantVars>>
notQuantVars == <<storeVars, frameVars, gifVars>>

\* ------------------------------------------------------------ test frames
\* generate_test_frame(frame, size, index): byte at offset (y*size+x)*4+c
Pixel(size, index, x, y) ==
    << ((((x * 255) \div size) * (index % 16)) \div 16) % 256,
       ((((y * 255) \div size) * ((index + 8) % 16)) \div 16) % 256,
       (((((x + y) * 255) \div (2 * size)) * ((index + 4) % 16)) \div 16) % 256,
       255 >>

generate_test_frame(size, index) ==
    [i \in 1..(size * size * Channels) |->
        LET p == (i - 1) \div Channels
            c == ((i - 1) % Channels) + 1
        IN  Pixel(size, index, p % size, p \div size)[c]]

Max(a, b) == IF a >= b THEN a ELSE b

\* a caller's width*height*4 byte buffer, filled from a test pattern
PixelBuffer(width, height, index) ==
    SubSeq(generate_test_frame(Max(width, height), index),
           1, width * height * Channels)

\* ---------------------------------------------------------- streaming store
Manifests ==
    [width : 1..MaxSide, height : {MaxSide}, channels : {Channels},
     frame_count : 1..MaxFrameCount]

NoManifest == [width |-> 0, height |-> 0, channels |-> 0, frame_count |-> 0]

Payloads(m) == {PixelBuffer(m.width, m.height, k) : k \in 0..MaxPayload}

\* what a caller finds in memory the callee never wrote
Indeterminate == {-1, 0}

\* the stub's struct { frame_count, width, height, format } as words in memory
StubManifestWords == <<StubFrameCount, StubWidth, StubHeight, StubFormat>>

\* the public struct { width, height, channels, frame_count } over the same words
PublicManifest(words) ==
    [width |-> words[1], height |-> words[2], channels |-> words[3],
     frame_count |-> words[4]]

StoreInit ==
    /\ writerActive = FALSE
    /\ finalized = FALSE
    /\ batchManifest = NoManifest
    /\ written = <<>>
    /\ stored = <<>>
    /\ readerActive = FALSE
    /\ outManifest = <<0, 0, 0, 0>>
    /\ outBuf = <<>>
    /\ readIndex = 0
    /\ callInSession = FALSE
    /\ storeOp = "none"
    /\ storeStatus = 0

\* int32_t yxcbor_open_writer(manifest) { return 0; }
yxcbor_open_writer(m) ==
    /\ storeOp' = "open_writer"
    /\ storeStatus' = 0
    /\ callInSession' = writerActive
    /\ writerActive' = TRUE
    /\ finalized' = FALSE
    /\ batchManifest' = m
    /\ written' = <<>>
    /\ UNCHANGED <<stored, readerActive, outManifest, outBuf, readIndex>>

\* int32_t yxcbor_write_frame(data, size) { return 0; }
yxcbor_write_frame(data) ==
    /\ Len(written) < MaxWrites
    /\ storeOp' = "write_frame"
    /\ storeStatus' = 0
    /\ callInSession' = writerActive
    /\ written' = Append(written, data)
    /\ UNCHANGED <<writerActive, finalized, batchManifest, stored,
                   readerActive, outManifest, outBuf, readIndex>>

\* void yxcbor_close_writer(void) { }  -- declared int32_t in yxcbor.h, so the
\* status the caller reads was never set
yxcbor_close_writer(r) ==
    /\ storeOp' = "close_writer"
    /\ storeStatus' = r
    /\ callInSession' = writerActive
    /\ writerActive' = FALSE
    /\ finalized' = (finalized \/ writerActive)
    /\ UNCHANGED <<batchManifest, written, stored, readerActive,
                   outManifest, outBuf, readIndex>>

\* int32_t yxcbor_open_reader(manifest): fills the stub's fields, returns 0
yxcbor_open_reader(hasManifest) ==
    /\ storeOp' = IF hasManifest THEN "open_reader" ELSE "open_reader_null"
    /\ storeStatus' = 0
    /\ UNCHANGED callInSession
    /\ readerActive' = TRUE
    /\ outManifest' = IF hasManifest THEN StubManifestWords ELSE outManifest
    /\ UNCHANGED <<writerActive, finalized, batchManifest, written, stored,
                   outBuf, readIndex>>

\* int32_t yxcbor_read_frame(buffer, size) { return 0; }: the buffer keeps
\* whatever the caller had in it
yxcbor_read_frame(index, prior) ==
    /\ storeOp' = "read_frame"
    /\ storeStatus' = 0
    /\ UNCHANGED callInSession
    /\ readIndex' = index
    /\ outBuf' = prior
    /\ UNCHANGED <<writerActive, finalized, batchManifest, written, stored,
                   readerActive, outManifest>>

\* void yxcbor_close_reader(void) { }
yxcbor_close_reader ==
    /\ storeOp' = "close_reader"
    /\ storeStatus' = 0
    /\ UNCHANGED callInSession
    /\ readerActive' = FALSE
    /\ UNCHANGED <<writerActive, finalized, batchManifest, written, stored,
                   outManifest, outBuf, readIndex>>

\* the frame shape the caller works with: the batch's once one was opened
CallerManifest ==
    IF batchManifest = NoManifest
    THEN [width |-> 1, height |-> 1, channels |-> Channels, frame_count |-> 1]
    ELSE batchManifest

OpenWriter ==
    /\ \E m \in Manifests : yxcbor_open_writer(m)
    /\ UNCHANGED notStoreVars
WriteFrame ==
    /\ \E data \in Payloads(CallerManifest) : yxcbor_write_frame(data)
    /\ UNCHANGED notStoreVars
CloseWriter ==
    /\ \E r \in Indeterminate : yxcbor_close_writer(r)
    /\ UNCHANGED notStoreVars
OpenReader ==
    /\ \E hasManifest \in BOOLEAN : yxcbor_open_reader(hasManifest)
    /\ UNCHANGED notStoreVars
ReadFrame ==
    /\ \E index \in 0..(MaxFrameCount - 1) :
          \E prior \in Payloads(CallerManifest) : yxcbor_read_frame(index, prior)
    /\ UNCHANGED notStoreVars
CloseReader ==
    /\ yxcbor_close_reader
    /\ UNCHANGED notStoreVars

StoreNext ==
    \/ OpenWriter
    \/ WriteFrame
    \/ CloseWriter
    \/ OpenReader
    \/ ReadFrame
    \/ CloseReader

\* ------------------------------------------------------ single-frame store
\* yxcbor_simple.h declares the two calls; their behaviour is the one the
\* specification gives: a fixed header (width, height, index, channel count)
\* followed by the raw pixel bytes, loaded back exactly.
\* status codes: 0 is success, every error is negative
ErrInvalidArgument == -1
ErrIO == -2

HeaderLen == 16   \* width, height, index, channel count: four uint32

FrameIndices == {0, 1, 255, 256, 65536}

U32Bytes(v) ==
    << v % 256, (v \div 256) % 256, (v \div 65536) % 256,
       (v \div 16777216) % 256 >>

U32ValueBigEndian(b) == 16777216 * b[1] + 65536 * b[2] + 256 * b[3] + b[4]

U32Value(b) == b[1] + 256 * b[2] + 65536 * b[3] + 16777216 * b[4]

\* the persisted layout of one frame: fixed header, then the raw pixel bytes
EncodeFrame(pixels, width, height, index) ==
    U32Bytes(width) \o U32Bytes(height) \o U32Bytes(index)
        \o U32Bytes(Channels) \o pixels

NoFrame == [width |-> 0, height |-> 0, index |-> 0, pixels |-> <<>>, ok |-> FALSE]

\* parse a frame file; ok = FALSE when it is not a well-formed frame file
DecodeFrame(bytes) ==
    IF Len(bytes) < HeaderLen THEN NoFrame
    ELSE LET width == U32Value(SubSeq(bytes, 1, 4))
             height == U32Value(SubSeq(bytes, 5, 8))
             index == U32Value(SubSeq(bytes, 9, 12))
             channels == U32Value(SubSeq(bytes, 13, 16))
         IN  IF channels # Channels
                \/ Len(bytes) # HeaderLen + width * height * channels
             THEN NoFrame
             ELSE [width |-> width, height |-> height, index |-> index,
                   pixels |-> SubSeq(bytes, HeaderLen + 1, Len(bytes)),
                   ok |-> TRUE]

FrameInit ==
    /\ file = [exists |-> FALSE, bytes |-> <<>>]
    /\ saved = NoFrame
    /\ loaded = NoFrame
    /\ frameOp = "none"
    /\ frameStatus = 0

\* yxcbor_save_frame(path, rgba_data, width, height, index)
yxcbor_save_frame(pixels, width, height, index, ioOk) ==
    /\ frameOp' = "save"
    /\ IF width = 0 \/ height = 0
       THEN frameStatus' = ErrInvalidArgument /\ UNCHANGED <<file, saved>>
       ELSE IF ~ioOk
       THEN frameStatus' = ErrIO /\ UNCHANGED <<file, saved>>
       ELSE /\ frameStatus' = 0
            /\ file' = [exists |-> TRUE,
                        bytes |-> EncodeFrame(pixels, width, height, index)]
            /\ saved' = [width |-> width, height |-> height, index |-> index,
                         pixels |-> pixels, ok |-> TRUE]
    /\ loaded' = NoFrame      \* save_frame has no outputs

\* yxcbor_load_frame(path, out_rgba, out_width, out_height, out_index)
yxcbor_load_frame ==
    /\ frameOp' = "load"
    /\ LET frame == DecodeFrame(file.bytes)
       IN  IF file.exists /\ frame.ok
           THEN frameStatus' = 0 /\ loaded' = frame
           ELSE frameStatus' = ErrIO /\ UNCHANGED loaded
    /\ UNCHANGED <<file, saved>>

SaveFrame ==
    /\ \E width \in 0..MaxSide, height \in 0..MaxSide, index \in FrameIndices,
          k \in 0..MaxPattern, ioOk \in BOOLEAN :
           yxcbor_save_frame(PixelBuffer(width, height, k), width, height,
                             index, ioOk)
    /\ UNCHANGED notFrameVars
LoadFrame ==
    /\ yxcbor_load_frame
    /\ UNCHANGED notFrameVars

FrameNext == SaveFrame \/ LoadFrame

\* ----------------------------------------------------------- batch quantizer
\* yingif_ffi.h declares yx_proc_batch_rgba8; its behaviour is the one the
\* specification gives: deterministic downsampling, a palette of at most
\* palette_size colours per frame, nearest-colour indices.
PaletteSizes == {0, 1, 2, 3, 256, 257}
MaxPaletteSize == 256

Min(a, b) == IF a <= b THEN a ELSE b

\* 0x00RRGGBB
PackRGB(r, g, b) == r * 65536 + g * 256 + b
Red(c) == (c \div 65536) % 256
Green(c) == (c \div 256) % 256
Blue(c) == c % 256

\* the colour of pixel (x, y) of a width-wide RGBA frame; alpha is dropped
ColourAt(frame, width, x, y) ==
    LET o == (y * width + x) * Channels
    IN  PackRGB(frame[o + 1], frame[o + 2], frame[o + 3])

\* nearest-neighbour resampling to target_side x target_side, row by row
Downsample(frame, width, height, target_side) ==
    [i \in 1..(target_side * target_side) |->
        LET x == (i - 1) % target_side
            y == (i - 1) \div target_side
        IN  ColourAt(frame, width, (x * width) \div target_side,
                     (y * height) \div target_side)]

RECURSIVE DistinctColours(_, _)
DistinctColours(colours, acc) ==
    IF colours = <<>> THEN acc
    ELSE LET c == Head(colours)
         IN  DistinctColours(Tail(colours),
                 IF \E i \in 1..Len(acc) : acc[i] = c THEN acc
                 ELSE Append(acc, c))

BuildPaletteUncapped(colours, palette_size) == DistinctColours(colours, <<>>)

\* the colours of the frame in order of first appearance, at most palette_size
BuildPalette(colours, palette_size) ==
    LET d == DistinctColours(colours, <<>>)
    IN  SubSeq(d, 1, Min(Len(d), palette_size))

Distance(c, d) ==
    (Red(c) - Red(d)) * (Red(c) - Red(d))
        + (Green(c) - Green(d)) * (Green(c) - Green(d))
        + (Blue(c) - Blue(d)) * (Blue(c) - Blue(d))

\* index (from 0) of the nearest palette entry, the lowest on a tie
NearestIndex(c, palette) ==
    (CHOOSE i \in 1..Len(palette) :
        \A j \in 1..Len(palette) :
            \/ Distance(c, palette[i]) < Distance(c, palette[j])
            \/ (Distance(c, palette[i]) = Distance(c, palette[j]) /\ i <= j)) - 1

QuantizeFrame(frame, width, height, target_side, palette_size) ==
    LET colours == Downsample(frame, width, height, target_side)
        palette == BuildPalette(colours, palette_size)
    IN  [palette |-> palette,
         indices |-> [i \in 1..Len(colours) |-> NearestIndex(colours[i], palette)]]

RECURSIVE Flatten(_)
Flatten(seqs) == IF seqs = <<>> THEN <<>> ELSE Head(seqs) \o Flatten(Tail(seqs))

QuantInputs ==
    [n : 1..MaxFrames, width : 0..MaxSide, height : 0..MaxSide,
     target_side : 0..MaxSide, palette_size : PaletteSizes,
     first : 0..MaxPattern]

NoQuantInput ==
    [n |-> 1, width |-> 0, height |-> 0, target_side |-> 0,
     palette_size |-> 0, first |-> 0]

QuantInitWith(inputs) ==
    /\ quantOp = "none"
    /\ quantArgs \in inputs
    /\ outIndices = <<>>
    /\ outPalettes = <<>>
    /\ quantStatus = 0

\* yx_proc_batch_rgba8(frames, n, width, height, target_side, palette_size,
\*                     out_indices, out_palettes)
yx_proc_batch_rgba8(frames, n, width, height, target_side, palette_size) ==
    /\ quantOp' = "quantize"
    /\ IF \/ width <= 0 \/ height <= 0 \/ target_side <= 0
          \/ palette_size < 1 \/ palette_size > MaxPaletteSize
       THEN /\ quantStatus' = ErrInvalidArgument
            /\ outIndices' = <<>>
            /\ outPalettes' = <<>>
       ELSE LET q == [f \in 1..n |->
                        QuantizeFrame(frames[f], width, height, target_side,
                                      palette_size)]
            IN  /\ quantStatus' = 0
                /\ outIndices' = Flatten([f \in 1..n |-> q[f].indices])
                /\ outPalettes' = [f \in 1..n |-> q[f].palette]

\* the batches of test_rust_processing: frame i is pattern first + i; the
\* quantizer is a pure function, applied once to the arguments drawn
QuantizeBatch ==
    /\ quantOp = "none"
    /\ LET a == quantArgs
       IN  yx_proc_batch_rgba8(
               [f \in 1..a.n |-> PixelBuffer(a.width, a.height, a.first + f - 1)],
               a.n, a.width, a.height, a.target_side, a.palette_size)
    /\ UNCHANGED quantArgs
    /\ UNCHANGED notQuantVars

QuantNext == QuantizeBatch

\* ------------------------------------------- GIF size estimator and encoder
\* "GIF89a", the bytes test_gif_encoding compares the output with
Signature == <<71, 73, 70, 56, 57, 97>>

\* size_t yingif_estimate_gif_size(int w, int h, int frames)
\*     { return w * h * frames; }
yingif_estimate_gif_size(w, h, frames) == w * h * frames

\* output buffers a caller may hand in: never written, or left over from an
\* earlier encode
ZeroBuffer(capacity) == [i \in 1..capacity |-> 0]
StaleBuffer(capacity) ==
    [i \in 1..capacity |-> IF i <= Len(Signature) THEN Signature[i] ELSE 0]
CallerBuffers(capacity) == {ZeroBuffer(capacity), StaleBuffer(capacity)}

Capacities == {0, 5, 6, 16}

\* the caller's bytes-written variable before the call: the capacity (the
\* in/out convention of yx_gif_encode) or a cleared out_size
CallerLens(capacity) == {0, capacity}

HasSignature(buf) ==
    /\ Len(buf) >= Len(Signature)
    /\ SubSeq(buf, 1, Len(Signature)) = Signature

GifInit ==
    /\ gifOp = "none"
    /\ gifArgs = [frames |-> 0, side |-> 0]
    /\ estimate = 0
    /\ capacityIn = 0
    /\ gifBuf = <<>>
    /\ gifLen = 0
    /\ gifStatus = 0

EstimateGifSize ==
    /\ \E frames \in 1..MaxFrames, side \in 1..MaxSide :
          /\ gifOp' = "estimate"
          /\ gifArgs' = [frames |-> frames, side |-> side]
          /\ estimate' = yingif_estimate_gif_size(side, side, frames)
    /\ UNCHANGED <<capacityIn, gifBuf, gifLen, gifStatus>>
    /\ UNCHANGED notGifVars

\* int32_t yingif_create_gif89a(data, len, out, out_len) { return 0; }
\* nothing is written to out, nothing is reported back
yingif_create_gif89a(frames, side, capacity, buf, len) ==
    /\ gifOp' = "encode"
    /\ gifArgs' = [frames |-> frames, side |-> side]
    /\ capacityIn' = capacity
    /\ gifBuf' = buf
    /\ gifLen' = len
    /\ gifStatus' = 0
    /\ UNCHANGED estimate

CreateGif ==
    /\ \E frames \in 1..MaxFrames, side \in 1..MaxSide, capacity \in Capacities :
          \E buf \in CallerBuffers(capacity), len \in CallerLens(capacity) :
              yingif_create_gif89a(frames, side, capacity, buf, len)
    /\ UNCHANGED notGifVars

GifNext == EstimateGifSize \/ CreateGif

Init == StoreInit /\ FrameInit /\ GifInit /\ QuantInitWith({NoQuantInput})
QuantSpecInit == StoreInit /\ FrameInit /\ GifInit /\ QuantInitWith(QuantInputs)
StoreSpec == Init /\ [][StoreNext]_vars
FrameSpec == Init /\ [][FrameNext]_vars
GifSpec == Init /\ [][GifNext]_vars
QuantSpec == QuantSpecInit /\ [][QuantNext]_vars

\* --------------------------------------------- estimator and encoder: claims
\* C4: the estimator's value for (frame_count, side) is at least the bytes
\* written reported by a successful encode with those parameters.
C4_EstimatorSound ==
    (gifOp = "encode" /\ gifStatus = 0) =>
        yingif_estimate_gif_size(gifArgs.side, gifArgs.side, gifArgs.frames)
            >= gifLen

\* C5: when the encoder returns 0 it reports at least six bytes written and
\* the output buffer begins with "GIF89a".
C5_EncoderMagic ==
    (gifOp = "encode" /\ gifStatus = 0) =>
        (gifLen >= Len(Signature) /\ HasSignature(gifBuf))

\* C10: a capacity too small for the encoded output (every output holds at
\* least the signature) gives a negative status and zero bytes written, and
\* status 0 is returned only with a stream of the reported length in the
\* buffer.
C10_EncoderFailureReported ==
    gifOp = "encode" =>
        /\ capacityIn < Len(Signature) => (gifStatus < 0 /\ gifLen = 0)
        /\ gifStatus = 0 =>
              (gifLen <= capacityIn /\ gifLen > 0 /\ HasSignature(gifBuf))


CompleteBatch ==
    /\ finalized
    /\ ~writerActive
    /\ Len(written) = batchManifest.frame_count

\* C2: a write_frame call made while no writer session is active is rejected
\* with a non-zero status; write_frame returns 0 only inside a session.
C2_WriteOutsideSessionRejected ==
    (storeOp = "write_frame" /\ ~callInSession) => storeStatus # 0

\* C3: after open_writer, frame_count writes and close_writer, open_reader
\* and read_frame(i) with i < frame_count return 0 and leave in the caller's
\* buffer exactly the bytes of the i-th write_frame call.
C3_StreamingRoundTrip ==
    (/\ storeOp = "read_frame"
     /\ CompleteBatch
     /\ readerActive
     /\ readIndex < Len(written))
        => (storeStatus = 0 /\ outBuf = written[readIndex + 1])

\* C7: close_writer called while no writer session is active returns an
\* error status.
C7_DoubleCloseReported ==
    (storeOp = "close_writer" /\ ~callInSession) => storeStatus # 0

\* C8: open_reader on a finalized batch returns a manifest whose fields, read
\* through the public yx_frame_manifest layout, equal the manifest given to
\* open_writer.
C8_ManifestRecovered ==
    (storeOp = "open_reader" /\ storeStatus = 0 /\ finalized /\ ~writerActive)
        => PublicManifest(outManifest) = batchManifest

\* C9: during a writer session the store holds exactly the frames of the
\* successful write_frame calls since open_writer, the k-th at index k-1
\* (position k of the sequence), and never more than manifest.frame_count.
C9_ContiguousBatch ==
    writerActive =>
        /\ stored = written
        /\ Len(written) <= batchManifest.frame_count

\* -------------------------------------------------------- quantizer: claims
\* C6: a successful batch quantization writes exactly n * target_side^2
\* indices, each below the requested palette size, and one palette per frame
\* of at most palette_size entries.
C6_QuantizationRange ==
    (quantOp = "quantize" /\ quantStatus = 0) =>
        /\ Len(outIndices)
              = quantArgs.n * quantArgs.target_side * quantArgs.target_side
        /\ \A i \in 1..Len(outIndices) :
              outIndices[i] >= 0 /\ outIndices[i] < quantArgs.palette_size
        /\ Len(outPalettes) = quantArgs.n
        /\ \A f \in 1..Len(outPalettes) :
              Len(outPalettes[f]) <= quantArgs.palette_size

\* a batch whose frames hold more colours than the palette may: the palette
\* is cut to palette_size and both of its entries are used
C6_Witness ==
    /\ quantOp = "quantize"
    /\ quantStatus = 0
    /\ quantArgs.n = 2
    /\ quantArgs.width = 2
    /\ quantArgs.height = 2
    /\ quantArgs.target_side = 2
    /\ quantArgs.palette_size = 2
    /\ Len(outIndices) = 8
    /\ \E i \in 1..Len(outIndices) : outIndices[i] = 1
    /\ \A f \in 1..2 : Len(outPalettes[f]) = 2
====
